---- MODULE Spec2Model ----
(***************************************************************************)
(* llm-axe: FunctionCaller.get_function, Agent.ask and OnlineAgent.search  *)
(* (src/llm_axe/agents.py) with the helpers of src/llm_axe/core.py they    *)
(* use.  Texts are sequences of tokens; a member token stands for one      *)
(* `"key": value` member of a JSON object, the braces are tokens of their  *)
(* own, so that json.loads and clean_json_response work on the text.       *)
(***************************************************************************)
EXTENDS Integers, Sequences, FiniteSets, TLC

\* ------------------------------------------------------------------ bounds
MaxOps == 2        \* operations (ask / get_function / search) per behaviour
MaxSearches == 1   \* of which OnlineAgent.search invocations
MaxHist == 1       \* length of a caller-supplied history list
MaxLen == 5        \* tokens of a text handed to safe_read_json directly
MaxFuncs == 2      \* callables of a list handed to FunctionCaller directly
MaxChunks == 2     \* chunks of a stream handed to stream_and_record

\* ----------------------------------------------------------- Python values
None == [t |-> "None"]
PyStr(s) == [t |-> "str", v |-> s]
PyInt(n) == [t |-> "int", v |-> n]
PyList(s) == [t |-> "list", v |-> s]
PyDict(m) == [t |-> "dict", m |-> m]
PyText(s) == [t |-> "text", v |-> s]
Raised(e) == [t |-> "raised", exc |-> e]

\* str(x) as an f-string or str.format renders it, as tokens
StrOf(x) ==
    IF x.t = "None" THEN <<"None">>
    ELSE IF x.t = "str" THEN <<x.v>>
    ELSE IF x.t = "text" THEN x.v
    ELSE IF x.t = "int" THEN <<"int">>
    ELSE <<"repr">>

\* ------------------------------------------------------------- make_prompt
make_prompt(role, content, images) ==
    IF images = None
    THEN [role |-> role, content |-> content]
    ELSE [role |-> role, content |-> content, images |-> images.v]

\* ------------------------------------------------------------ JSON texts
P1 == PyDict([k \in {"a", "b"} |-> PyInt(IF k = "a" THEN 4 ELSE 5)])

MemberTokens ==
    {"f_add", "f_multiply", "f_zzz", "p_P1", "q_Q", "q_null", "u_U1", "u_U9", "u_null"}

MemberKey(tok) ==
    IF tok \in {"f_add", "f_multiply", "f_zzz"} THEN "function"
    ELSE IF tok = "p_P1" THEN "parameters"
    ELSE IF tok \in {"q_Q", "q_null"} THEN "search_query"
    ELSE "url"

MemberValue(tok) ==
    CASE tok = "f_add" -> PyStr("add")
      [] tok = "f_multiply" -> PyStr("multiply")
      [] tok = "f_zzz" -> PyStr("zzz")
      [] tok = "p_P1" -> P1
      [] tok = "q_Q" -> PyStr("query")
      [] tok = "u_U1" -> PyStr("http://u1")
      [] tok = "u_U9" -> PyStr("http://u9")
      [] OTHER -> None

\* json.loads: one scalar, or a flat object `{ member* }`; anything else
\* raises JSONDecodeError (ok = FALSE).  A later duplicate key wins.
ScalarTokens == {"[1]", "5", "null"}

ScalarValue(tok) ==
    CASE tok = "[1]" -> PyList(<<PyInt(1)>>)
      [] tok = "5" -> PyInt(5)
      [] OTHER -> None

\* A member whose value is a string literal is spelled out: StrOpen is the
\* text up to and into the literal, StrClose the rest of the literal with
\* its closing quote, and the tokens between them are characters of the
\* string, braces among them.
StrOpen == "\"note\": \"a"
StrClose == "b\""
StringChars == {"{", "}", "Sure:", "5"}

\* the members spelled by text[i..Len(text)-1], or ok = FALSE
RECURSIVE MembersFrom(_, _)
MembersFrom(text, i) ==
    IF i > Len(text) - 1 THEN [ok |-> TRUE, members |-> <<>>]
    ELSE IF text[i] \in MemberTokens
    THEN LET rest == MembersFrom(text, i + 1)
         IN [ok |-> rest.ok,
             members |-> <<[key |-> MemberKey(text[i]),
                            value |-> MemberValue(text[i])]>> \o rest.members]
    ELSE IF text[i] = StrOpen
    THEN LET closes == {j \in (i + 1)..(Len(text) - 1) : text[j] = StrClose}
         IN IF closes = {} THEN [ok |-> FALSE, members |-> <<>>]
            ELSE LET j == CHOOSE c \in closes : \A d \in closes : c <= d
                     rest == MembersFrom(text, j + 1)
                 IN IF \A k \in (i + 1)..(j - 1) : text[k] \in StringChars
                    THEN [ok |-> rest.ok,
                          members |-> <<[key |-> "note",
                                         value |-> PyStr(SubSeq(text, i, j))]>>
                                      \o rest.members]
                    ELSE [ok |-> FALSE, members |-> <<>>]
    ELSE [ok |-> FALSE, members |-> <<>>]

IsObjectText(text) ==
    /\ Len(text) >= 2
    /\ text[1] = "{"
    /\ text[Len(text)] = "}"
    /\ MembersFrom(text, 2).ok

ObjectOf(text) ==
    LET ms == MembersFrom(text, 2).members
        idx == 1..Len(ms)
        keys == {ms[i].key : i \in idx}
        last(k) == CHOOSE i \in idx :
                      /\ ms[i].key = k
                      /\ \A j \in idx : ms[j].key = k => j <= i
    IN PyDict([k \in keys |-> ms[last(k)].value])

json_loads(text) ==
    IF Len(text) = 1 /\ text[1] \in ScalarTokens
    THEN [ok |-> TRUE, val |-> ScalarValue(text[1])]
    ELSE IF IsObjectText(text)
    THEN [ok |-> TRUE, val |-> ObjectOf(text)]
    ELSE [ok |-> FALSE, val |-> None]

\* clean_json_response: the loop of core.py:165-175, i is the 1-based index,
\* start = 0 stands for start = None
RECURSIVE CleanScan(_, _, _, _)
CleanScan(response, i, brace_count, start) ==
    IF i > Len(response) THEN <<>>
    ELSE IF response[i] = "{"
    THEN CleanScan(response, i + 1, brace_count + 1,
                   IF brace_count = 0 THEN i ELSE start)
    ELSE IF response[i] = "}"
    THEN IF brace_count - 1 = 0 /\ start # 0
         THEN SubSeq(response, start, i)
         ELSE CleanScan(response, i + 1, brace_count - 1, start)
    ELSE CleanScan(response, i + 1, brace_count, start)

\* the slice from the first opening brace to the last closing one
clean_json_response_greedy(response) ==
    LET opens == {i \in 1..Len(response) : response[i] = "{"}
        closes == {i \in 1..Len(response) : response[i] = "}"}
    IN IF opens = {} \/ closes = {} THEN <<>>
       ELSE SubSeq(response,
                   CHOOSE i \in opens : \A j \in opens : i <= j,
                   CHOOSE i \in closes : \A j \in closes : j <= i)

clean_json_response(response) == CleanScan(response, 1, 0, 0)

\* safe_read_json giving up without the warning
safe_read_json_silent(response) ==
    LET first == json_loads(response)
        second == json_loads(clean_json_response(response))
    IN IF first.ok THEN [val |-> first.val, warned |-> FALSE]
       ELSE [val |-> second.val, warned |-> FALSE]

\* safe_read_json: the parsed value, and whether the warning was emitted
safe_read_json(response) ==
    LET first == json_loads(response)
        second == json_loads(clean_json_response(response))
    IN IF first.ok THEN [val |-> first.val, warned |-> FALSE]
       ELSE IF second.ok THEN [val |-> second.val, warned |-> FALSE]
       ELSE [val |-> None, warned |-> TRUE]

\* ---------------------------------------------------------------- callables
\* What inspect.signature and docstring_parser.parse read of a function: its
\* __name__, its declared parameters and its parsed documentation.  id tells
\* two function objects of the same __name__ apart.
Empty == [t |-> "empty"]     \* inspect.Parameter.empty

add ==
    [id |-> "add#1", name |-> "add",
     params |-> <<[name |-> "a", annotation |-> "<class 'int'>", default |-> Empty],
                  [name |-> "b", annotation |-> "<class 'int'>", default |-> Empty]>>,
     doc |-> [short_description |-> "Adds two numbers",
              params |-> <<[arg_name |-> "a", description |-> "first number"],
                           [arg_name |-> "b", description |-> "second number"]>>]]

multiply ==
    [id |-> "multiply#1", name |-> "multiply",
     params |-> <<[name |-> "a", annotation |-> "<class 'int'>", default |-> Empty],
                  [name |-> "b", annotation |-> "<class 'inspect._empty'>",
                   default |-> PyInt(1)]>>,
     doc |-> [short_description |-> "Multiplies",
              params |-> <<[arg_name |-> "b", description |-> "the factor"]>>]]

add_again ==
    [id |-> "add#2", name |-> "add",
     params |-> <<[name |-> "x", annotation |-> "<class 'str'>", default |-> Empty]>>,
     doc |-> [short_description |-> "None", params |-> <<>>]]

FunctionLists == {<<add, multiply>>, <<add, add_again>>}

\* a parameter described by the documentation entry of its own name
ParamEntryByName(func, i) ==
    [name |-> func.params[i].name,
     type |-> func.params[i].annotation,
     default |-> IF func.params[i].default = Empty
                 THEN PyStr("None") ELSE func.params[i].default,
     description |->
        IF \E d \in 1..Len(func.doc.params) :
              func.doc.params[d].arg_name = func.params[i].name
        THEN func.doc.params[CHOOSE d \in 1..Len(func.doc.params) :
                func.doc.params[d].arg_name = func.params[i].name].description
        ELSE "None"]

\* generate_schema, core.py:115-135.  The schema dict keeps insertion order
\* and a repeated key overwrites the entry in place, so it is a sequence of
\* entries with distinct names.
ParamEntry(func, i) ==
    [name |-> func.params[i].name,
     type |-> func.params[i].annotation,
     default |-> IF func.params[i].default = Empty
                 THEN PyStr("None") ELSE func.params[i].default,
     description |-> IF i <= Len(func.doc.params)
                     THEN func.doc.params[i].description ELSE "None"]

FuncEntry(func) ==
    [name |-> func.name,
     description |-> func.doc.short_description,
     parameters |-> [i \in 1..Len(func.params) |-> ParamEntry(func, i)]]

DictPut(schema, entry) ==
    IF \E i \in 1..Len(schema) : schema[i].name = entry.name
    THEN [i \in 1..Len(schema) |->
             IF schema[i].name = entry.name THEN entry ELSE schema[i]]
    ELSE Append(schema, entry)

RECURSIVE SchemaLoop(_, _, _)
SchemaLoop(funcs, n, schema) ==
    IF n > Len(funcs) THEN schema
    ELSE SchemaLoop(funcs, n + 1, DictPut(schema, FuncEntry(funcs[n])))

generate_schema(funcs) == SchemaLoop(funcs, 1, <<>>)

\* json.dumps(schema) as tokens
RECURSIVE Flatten(_)
Flatten(seqs) == IF seqs = <<>> THEN <<>> ELSE Head(seqs) \o Flatten(Tail(seqs))

ParamText(p) == <<p.name, p.type>> \o StrOf(p.default) \o <<p.description>>

EntryText(e) ==
    <<"{", e.name, e.description>>
    \o Flatten([i \in 1..Len(e.parameters) |-> ParamText(e.parameters[i])])
    \o <<"}">>

SchemaText(schema) == Flatten([i \in 1..Len(schema) |-> EntryText(schema[i])])

\* {func.__name__: func for func in functions}, agents.py:345
FunctionsDict(funcs) ==
    LET names == {funcs[i].name : i \in 1..Len(funcs)}
        last(n) == CHOOSE i \in 1..Len(funcs) :
                      /\ funcs[i].name = n
                      /\ \A j \in 1..Len(funcs) : funcs[j].name = n => j <= i
    IN [n \in names |-> funcs[last(n)]]

\* ------------------------------------------------- Python `in` and `[]`
\* key in v  (v is not None): a dict tests its keys, a list its elements, a
\* str tests for a substring, an int raises TypeError
Contains(v, key) ==
    IF v.t = "dict" THEN [ok |-> TRUE, val |-> key \in DOMAIN v.m]
    ELSE IF v.t = "list"
    THEN [ok |-> TRUE,
          val |-> \E i \in 1..Len(v.v) : v.v[i].t = "str" /\ v.v[i].v = key]
    ELSE IF v.t = "str" THEN [ok |-> TRUE, val |-> v.v = key]
    ELSE [ok |-> FALSE, val |-> FALSE]

\* v[key]: the value, "KeyError" or "TypeError"
Subscript(v, key) ==
    IF v.t = "dict"
    THEN IF key \in DOMAIN v.m
         THEN [exc |-> "", val |-> v.m[key]]
         ELSE [exc |-> "KeyError", val |-> None]
    ELSE [exc |-> "TypeError", val |-> None]

\* ------------------------------------------------------------------ inputs
Questions == {<<"What is 4 times 5?">>}

HistoryMessage == [role |-> "user", content |-> <<"Hello">>]

\* history=None, or a list of at most MaxHist messages (an empty list is
\* treated as None is: extending by it adds nothing)
Histories ==
    {None} \cup {PyList([i \in 1..n |-> HistoryMessage]) : n \in 1..MaxHist}

HistoryList(history) == IF history = None THEN <<>> ELSE history.v

ImageInputs == {None, PyList(<<"img.png">>)}

\* replies of the model to a format="json" request
JsonReplies ==
    { <<"{", "f_add", "p_P1", "}">>,
      <<"Sure:", "{", "f_multiply", "p_P1", "}", "Done.">>,
      <<"{", "p_P1", "}">>,
      <<"{", "f_add", "}">>,
      <<"{", "f_zzz", "p_P1", "}">>,
      <<"{", "q_Q", "}">>,
      <<"{", "u_U1", "}">>,
      <<"{", "u_null", "}">>,
      <<"[1]">>,
      <<"5">>,
      <<"I cannot answer that">> }

\* replies of the model to a request without format
TextReplies ==
    { <<"Based on information from the internet, ", "it is 20">>,
      <<"it is 20">> }

Replies(format) == IF format = "json" THEN JsonReplies ELSE TextReplies

\* what the search collaborator returns, and json.dumps of it
SearchResults ==
    { PyList(<<PyStr("http://u1"), PyStr("http://u2")>>) }

json_dumps(results) ==
    <<"[">> \o Flatten([i \in 1..Len(results.v) |-> StrOf(results.v[i])]) \o <<"]">>

\* what the site reader returns: the body text, or None
SiteTexts == {None, PyStr("page body")}

\* ------------------------------------------------------------- the agents
Instances == {"agent", "fc", "online", "final_responder", "reader"}

DefaultTemperature == "0.8"       \* agents.py:13
ConfiguredTemperature == "0.2"    \* the temperature the caller constructs with

\* get_yaml_prompt(...).format(...): the template's name, then what is
\* interpolated
SystemPrompt(name, interpolated) ==
    make_prompt("system", <<name>> \o interpolated, None)

VARIABLES
    llm,             \* the llm object every agent was constructed with
    functions,       \* the list FunctionCaller was constructed with
    functions_dict,  \* FunctionCaller.functions_dict
    schema,          \* FunctionCaller.schema (the dict json.dumps serializes)
    system_prompt,   \* self.system_prompt of each instance
    chat_history,    \* self.chat_history of each instance
    pc,              \* "idle", or the stage OnlineAgent.search is about to run
    frame,           \* the locals of the running (or last) operation
    ret,             \* the operation and what it returned or raised
    calls,           \* the external calls of the running (or last) operation
    warned,          \* the warnings of the running (or last) operation
    invoked,         \* ids of the registered callables that were called
    ops,             \* operations started
    searches,        \* OnlineAgent.search invocations started
    base,            \* chat_history when the running (or last) operation began
    read_function,   \* WebsiteReaderAgent.read_function
    stream,          \* a stream_and_record generator and its consumer
    threads          \* the threads calling search on the one OnlineAgent

vars == <<llm, functions, functions_dict, schema, system_prompt, chat_history,
          pc, frame, ret, calls, warned, invoked, ops, searches, base,
          read_function, stream, threads>>

NoFrame ==
    [prompt |-> <<>>, history |-> None, query |-> None, search_results |-> <<>>,
     url |-> None, website_text |-> None, user_prompt |-> <<>>,
     response |-> <<>>]

NoStream == [state |-> "none"]
NoThreads == <<>>

\* Agent.__init__ (agents.py:23-35), FunctionCaller.__init__ (agents.py:343-355),
\* OnlineAgent.__init__ (agents.py:509-515) and, but for its reader,
\* WebsiteReaderAgent.__init__ (agents.py:453-458), whose system_prompt is
\* the template that ask formats
AgentsConstructed ==
    /\ llm \in {"OllamaChat", "no_ask", "None"}
    /\ functions \in FunctionLists
    /\ functions_dict = FunctionsDict(functions)
    /\ schema = generate_schema(functions)
    /\ system_prompt =
         [i \in Instances |->
            IF i = "fc"
            THEN SystemPrompt("FunctionCaller", SchemaText(generate_schema(functions)))
            ELSE IF i = "online" THEN SystemPrompt("OnlineSearcher", <<>>)
            ELSE IF i = "reader" THEN SystemPrompt("WebsiteReader", <<>>)
            ELSE SystemPrompt("GenericResponder", <<>>)]
    /\ chat_history = [i \in Instances |-> <<>>]
    /\ pc = "idle"
    /\ frame = NoFrame
    /\ ret = [op |-> "none", val |-> None]
    /\ calls = <<>>
    /\ warned = {}
    /\ invoked = <<>>
    /\ ops = 0
    /\ searches = 0
    /\ base = [i \in Instances |-> <<>>]

\* the default reader, no stream, no threads
Init ==
    /\ AgentsConstructed
    /\ read_function = "read_website"
    /\ stream = NoStream
    /\ threads = NoThreads

\* llm_has_ask, core.py:53-56
llm_has_ask(l) == l = "OllamaChat"

HasAskWarning == "llm object must have an ask function!"

\* one external call, with what it returned
LlmCall(prompts, format, temperature, response) ==
    [callee |-> "llm.ask",
     args |-> [prompts |-> prompts, format |-> format, temperature |-> temperature],
     returned |-> PyText(response)]

CollaboratorCall(callee, arg, returned) ==
    [callee |-> callee, args |-> arg, returned |-> returned]

\* the ledger kept as a window of the four newest entries
RecordCapped(ledger, user, response) ==
    LET full == Append(Append(ledger, user), make_prompt("assistant", response, None))
    IN IF Len(full) > 4 THEN SubSeq(full, Len(full) - 3, Len(full)) ELSE full

\* the ledger skipping an exchange whose user message it already holds
RecordDeduplicating(ledger, user, response) ==
    IF \E k \in 1..Len(ledger) : ledger[k] = user
    THEN ledger
    ELSE Append(Append(ledger, user), make_prompt("assistant", response, None))

\* self.chat_history.append(user); self.chat_history.append(make_prompt("assistant", response))
Record(ledger, user, response) ==
    Append(Append(ledger, user), make_prompt("assistant", response, None))

\* the final responder built with the temperature of the OnlineAgent
TemperatureInherited(i) == ConfiguredTemperature

\* self.temperature and self.format of an instance: the final responder is
\* built with the defaults (agents.py:576), the others as the caller chose
Temperature(i) ==
    IF i = "final_responder" THEN DefaultTemperature ELSE ConfiguredTemperature

Format(i) == ""

\* ---------------------------------------------------------------- Agent.ask
\* prompts of agents.py:59-63
AskPrompts(self, prompt, images, history) ==
    <<system_prompt[self]>> \o HistoryList(history)
        \o <<make_prompt("user", prompt, images)>>

\* the ledger extended by everything sent after the system prompt
AskRecordWithHistory(ledger, prompts, response) ==
    Append(ledger \o Tail(prompts), make_prompt("assistant", response, None))

\* agents.py:64-67: the ledger of `self` after the exchange
AskRecord(ledger, prompts, response) ==
    Record(ledger, prompts[Len(prompts)], response)

Ask ==
    /\ pc = "idle"
    /\ ops < MaxOps
    /\ \E prompt \in Questions, images \in ImageInputs, history \in Histories :
         /\ frame' = [NoFrame EXCEPT !.prompt = prompt, !.history = history]
         /\ IF ~llm_has_ask(llm)
            THEN /\ ret' = [op |-> "ask", val |-> None]
                 /\ warned' = {HasAskWarning}
                 /\ calls' = <<>>
                 /\ UNCHANGED chat_history
            ELSE \E response \in Replies(Format("agent")) :
                   LET prompts == AskPrompts("agent", prompt, images, history) IN
                   /\ calls' = <<LlmCall(prompts, Format("agent"),
                                         Temperature("agent"), response)>>
                   /\ chat_history' =
                        [chat_history EXCEPT
                           !["agent"] = AskRecord(@, prompts, response)]
                   /\ ret' = [op |-> "ask", val |-> PyText(response)]
                   /\ warned' = {}
    /\ ops' = ops + 1
    /\ base' = chat_history
    /\ UNCHANGED <<read_function, stream, threads>>
    /\ UNCHANGED <<llm, functions, functions_dict, schema, system_prompt, pc,
                   invoked, searches>>

\* ------------------------------------------------ FunctionCaller.get_function
\* get_prompt, agents.py:435-437
get_prompt(self, question) ==
    <<system_prompt[self], make_prompt("user", question, None)>>

\* the history placed after the question instead of before it
FunctionPromptsHistoryLast(question_prompts, history) ==
    question_prompts \o HistoryList(history)

\* agents.py:383-389
FunctionPrompts(question_prompts, history) ==
    <<question_prompts[1]>> \o HistoryList(history) \o <<question_prompts[2]>>

NoFunctionWarning == "llm did not respond with a function and parameters."
NotValidWarning == "is not a valid function."
JsonWarning == "llm did not respond with proper json."

\* function_name not in self.functions_dict: a list or dict is unhashable
NameLookup(fdict, function_name) ==
    IF function_name.t \in {"list", "dict"} THEN [exc |-> "TypeError", found |-> FALSE]
    ELSE [exc |-> "",
          found |-> function_name.t = "str" /\ function_name.v \in DOMAIN fdict]

\* Dispatch reading the fields with .get(): a missing field becomes None
\* instead of the KeyError that returns None
DispatchUnchecked(fdict, response_json, prompts, response) ==
    IF response_json = None \/ response_json.t # "dict"
    THEN [val |-> None, warned |-> {}, invoked |-> <<>>]
    ELSE IF "function" \notin DOMAIN response_json.m
    THEN [val |-> None, warned |-> {NoFunctionWarning}, invoked |-> <<>>]
    ELSE IF ~NameLookup(fdict, response_json.m["function"]).found
    THEN [val |-> None, warned |-> {NotValidWarning}, invoked |-> <<>>]
    ELSE [val |-> [t |-> "dispatch",
                   function |-> fdict[response_json.m["function"].v],
                   parameters |-> IF "parameters" \in DOMAIN response_json.m
                                  THEN response_json.m["parameters"] ELSE None,
                   prompts |-> prompts,
                   raw_response |-> response],
          warned |-> {}, invoked |-> <<>>]

\* Dispatch returning the cleaned json text as raw_response
DispatchCleanedRaw(fdict, response_json, prompts, response) ==
    IF response_json = None \/ response_json.t # "dict"
       \/ ~({"function", "parameters"} \subseteq DOMAIN response_json.m)
    THEN [val |-> None, warned |-> {}, invoked |-> <<>>]
    ELSE IF ~NameLookup(fdict, response_json.m["function"]).found
    THEN [val |-> None, warned |-> {NotValidWarning}, invoked |-> <<>>]
    ELSE [val |-> [t |-> "dispatch",
                   function |-> fdict[response_json.m["function"].v],
                   parameters |-> response_json.m["parameters"],
                   prompts |-> prompts,
                   raw_response |-> clean_json_response(response)],
          warned |-> {}, invoked |-> <<>>]

\* Dispatch calling the selected function with the model's parameters
DispatchInvoking(fdict, response_json, prompts, response) ==
    IF response_json = None \/ response_json.t # "dict"
       \/ ~({"function", "parameters"} \subseteq DOMAIN response_json.m)
    THEN [val |-> None, warned |-> {}, invoked |-> <<>>]
    ELSE IF ~NameLookup(fdict, response_json.m["function"]).found
    THEN [val |-> None, warned |-> {NotValidWarning}, invoked |-> <<>>]
    ELSE [val |-> [t |-> "dispatch",
                   function |-> fdict[response_json.m["function"].v],
                   parameters |-> response_json.m["parameters"],
                   prompts |-> prompts,
                   raw_response |-> response],
          warned |-> {},
          invoked |-> <<fdict[response_json.m["function"].v].id>>]

\* agents.py:397-416: what get_function returns or raises for the parsed
\* reply, the warnings it emits and the callables it calls on the way (none)
Dispatch(fdict, response_json, prompts, response) ==
    IF response_json = None
    THEN [val |-> None, warned |-> {}, invoked |-> <<>>]
    ELSE
      LET function_name == Subscript(response_json, "function")
          parameters == Subscript(response_json, "parameters")
      IN IF function_name.exc = "TypeError"
         THEN [val |-> Raised("TypeError"), warned |-> {}, invoked |-> <<>>]
         ELSE IF function_name.exc = "KeyError" \/ parameters.exc = "KeyError"
         THEN [val |-> None, warned |-> {NoFunctionWarning}, invoked |-> <<>>]
         ELSE IF NameLookup(fdict, function_name.val).exc # ""
         THEN [val |-> Raised("TypeError"), warned |-> {}, invoked |-> <<>>]
         ELSE IF ~NameLookup(fdict, function_name.val).found
         THEN [val |-> None, warned |-> {NotValidWarning}, invoked |-> <<>>]
         ELSE [val |-> [t |-> "dispatch",
                        function |-> fdict[function_name.val.v],
                        parameters |-> parameters.val,
                        prompts |-> prompts,
                        raw_response |-> response],
               warned |-> {},
               invoked |-> <<>>]

GetFunction ==
    /\ pc = "idle"
    /\ ops < MaxOps
    /\ \E question \in Questions, history \in Histories :
         /\ frame' = [NoFrame EXCEPT !.prompt = question, !.history = history]
         /\ IF llm = "None"
            THEN /\ ret' = [op |-> "get_function", val |-> Raised("ValueError")]
                 /\ warned' = {}
                 /\ calls' = <<>>
                 /\ UNCHANGED <<chat_history, invoked>>
            ELSE IF ~llm_has_ask(llm)
            THEN /\ ret' = [op |-> "get_function", val |-> None]
                 /\ warned' = {HasAskWarning}
                 /\ calls' = <<>>
                 /\ UNCHANGED <<chat_history, invoked>>
            ELSE \E response \in Replies("json") :
                   LET question_prompts == get_prompt("fc", question)
                       prompts == FunctionPrompts(question_prompts, history)
                       parsed == safe_read_json(response)
                       out == Dispatch(functions_dict, parsed.val, prompts, response)
                   IN
                   /\ calls' = <<LlmCall(prompts, "json", Temperature("fc"), response)>>
                   /\ chat_history' =
                        [chat_history EXCEPT
                           !["fc"] = Record(@, question_prompts[2], response)]
                   /\ ret' = [op |-> "get_function", val |-> out.val]
                   /\ warned' = (IF parsed.warned THEN {JsonWarning} ELSE {})
                                  \cup out.warned
                   /\ invoked' = invoked \o out.invoked
    /\ ops' = ops + 1
    /\ base' = chat_history
    /\ UNCHANGED <<read_function, stream, threads>>
    /\ UNCHANGED <<llm, functions, functions_dict, schema, system_prompt, pc,
                   searches>>

\* ---------------------------------------------------------- OnlineAgent.search
UrlWarning == "LLM did not respond with valid url or json response."

\* get_search_query falling back to a query of its own when the reply has
\* no "search_query"
QueryOfFallback(response_json) ==
    IF response_json = None \/ response_json.t # "dict"
       \/ "search_query" \notin DOMAIN response_json.m
    THEN [exc |-> "", val |-> PyStr("fallback query")]
    ELSE [exc |-> "", val |-> response_json.m["search_query"]]

\* agents.py:591-594: what get_search_query returns (or raises) for the
\* parsed reply
QueryOf(response_json) ==
    IF response_json = None THEN [exc |-> "", val |-> None]
    ELSE IF ~Contains(response_json, "search_query").ok
    THEN [exc |-> "TypeError", val |-> None]
    ELSE IF Contains(response_json, "search_query").val
    THEN Subscript(response_json, "search_query")
    ELSE [exc |-> "", val |-> None]

\* the selection aborting also when the "url" value is not a string
UrlOfValidated(resp_json) ==
    IF resp_json = None \/ resp_json.t # "dict"
       \/ "url" \notin DOMAIN resp_json.m
       \/ resp_json.m["url"].t # "str"
    THEN [exc |-> "", abort |-> TRUE, val |-> None]
    ELSE [exc |-> "", abort |-> FALSE, val |-> resp_json.m["url"]]

\* agents.py:556-561: the url of the selection reply, or the abort
UrlOf(resp_json) ==
    IF resp_json = None THEN [exc |-> "", abort |-> TRUE, val |-> None]
    ELSE IF ~Contains(resp_json, "url").ok
    THEN [exc |-> "TypeError", abort |-> FALSE, val |-> None]
    ELSE IF Contains(resp_json, "url").val
    THEN [exc |-> Subscript(resp_json, "url").exc, abort |-> FALSE,
          val |-> Subscript(resp_json, "url").val]
    ELSE [exc |-> "", abort |-> TRUE, val |-> None]

\* the url picker prompt sent in the system role
UrlPickerPromptAsSystem(prompt, search_results) ==
    make_prompt("system", <<"UrlPicker">> \o prompt \o search_results, None)

\* agents.py:545-546
UrlPickerPrompt(prompt, search_results) ==
    make_prompt("user", <<"UrlPicker">> \o prompt \o search_results, None)

\* agents.py:564-574
AttributionInstruction ==
    "Start your answer with \"Based on information from the internet, \""

SynthesisPrompt(url, website_text, prompt) ==
    <<"Please read the following information:", "Information about Website">>
        \o StrOf(url) \o <<":">> \o StrOf(website_text)
        \o <<"Answer the following question based on the above information:">>
        \o prompt \o <<AttributionInstruction>>

\* stage 1, agents.py:533-535 and get_search_query, agents.py:584-594
SearchQueryFormulation ==
    /\ pc = "idle"
    /\ ops < MaxOps
    /\ searches < MaxSearches
    /\ \E prompt \in Questions, history \in Histories :
         IF ~llm_has_ask(llm)
         THEN /\ ret' = [op |-> "search", val |-> Raised("AttributeError")]
              /\ frame' = [NoFrame EXCEPT !.prompt = prompt, !.history = history]
              /\ calls' = <<>>
              /\ warned' = {}
              /\ UNCHANGED <<chat_history, pc>>
         ELSE \E response \in Replies("json") :
                LET prompts == <<system_prompt["online"],
                                 make_prompt("user", prompt, None)>>
                    parsed == safe_read_json(response)
                    query == QueryOf(parsed.val)
                IN
                /\ calls' = <<LlmCall(prompts, "json", Temperature("online"), response)>>
                /\ chat_history' =
                     [chat_history EXCEPT !["online"] = Record(@, prompts[2], response)]
                /\ warned' = IF parsed.warned THEN {JsonWarning} ELSE {}
                /\ frame' = [NoFrame EXCEPT !.prompt = prompt, !.history = history,
                                            !.query = query.val]
                /\ IF query.exc # ""
                   THEN /\ ret' = [op |-> "search", val |-> Raised(query.exc)]
                        /\ pc' = "idle"
                   ELSE IF query.val = None
                   THEN /\ ret' = [op |-> "search", val |-> None]
                        /\ pc' = "idle"
                   ELSE /\ ret' = [op |-> "search", val |-> [t |-> "pending"]]
                        /\ pc' = "retrieval"
    /\ ops' = ops + 1
    /\ searches' = searches + 1
    /\ base' = chat_history
    /\ UNCHANGED <<read_function, stream, threads>>
    /\ UNCHANGED <<llm, functions, functions_dict, schema, system_prompt, invoked>>

\* stage 2 searching a second time when the first search found fewer than
\* the five results internet_search asks for
SearchRetrievalRetry ==
    /\ pc = "retrieval"
    /\ \E results \in SearchResults, again \in SearchResults :
         /\ calls' = IF Len(results.v) < 5
                     THEN calls \o <<CollaboratorCall("search_function", frame.query, results),
                                     CollaboratorCall("search_function", frame.query, again)>>
                     ELSE Append(calls,
                             CollaboratorCall("search_function", frame.query, results))
         /\ frame' = [frame EXCEPT !.search_results =
                        json_dumps(IF Len(results.v) < 5 THEN again ELSE results)]
    /\ pc' = "selection"
    /\ UNCHANGED <<read_function, stream, threads>>
    /\ UNCHANGED <<llm, functions, functions_dict, schema, system_prompt,
                   chat_history, ret, warned, invoked, ops, searches, base>>

\* stage 2, agents.py:537-538
SearchRetrieval ==
    /\ pc = "retrieval"
    /\ \E results \in SearchResults :
         /\ calls' = Append(calls,
                        CollaboratorCall("search_function", frame.query, results))
         /\ frame' = [frame EXCEPT !.search_results = json_dumps(results)]
    /\ pc' = "selection"
    /\ UNCHANGED <<read_function, stream, threads>>
    /\ UNCHANGED <<llm, functions, functions_dict, schema, system_prompt,
                   chat_history, ret, warned, invoked, ops, searches, base>>

\* stage 3 recording the exchange only when the reply gave a url
SearchSelectionRecordingOnSuccess ==
    /\ pc = "selection"
    /\ \E resp \in Replies("json") :
         LET url_picker_prompt == UrlPickerPrompt(frame.prompt, frame.search_results)
             url_picker_prompts == HistoryList(frame.history) \o <<url_picker_prompt>>
             parsed == safe_read_json(resp)
             url == UrlOf(parsed.val)
         IN
         /\ calls' = Append(calls, LlmCall(url_picker_prompts, "json",
                                           Temperature("online"), resp))
         /\ chat_history' =
              [chat_history EXCEPT
                 !["online"] = IF url.exc = "" /\ ~url.abort
                               THEN Record(@, url_picker_prompt, resp) ELSE @]
         /\ frame' = [frame EXCEPT !.url = url.val]
         /\ IF url.exc # ""
            THEN /\ ret' = [op |-> "search", val |-> Raised(url.exc)]
                 /\ warned' = warned \cup (IF parsed.warned THEN {JsonWarning} ELSE {})
                 /\ pc' = "idle"
            ELSE IF url.abort
            THEN /\ ret' = [op |-> "search", val |-> None]
                 /\ warned' = warned \cup {UrlWarning}
                                \cup (IF parsed.warned THEN {JsonWarning} ELSE {})
                 /\ pc' = "idle"
            ELSE /\ pc' = "fetch"
                 /\ UNCHANGED <<ret, warned>>
    /\ UNCHANGED <<read_function, stream, threads>>
    /\ UNCHANGED <<llm, functions, functions_dict, schema, system_prompt,
                   invoked, ops, searches, base>>

\* stage 3 building its prompts in the caller's history list itself
\* (url_picker_prompts = history, then append)
SearchSelectionExtendingHistory ==
    /\ pc = "selection"
    /\ \E resp \in Replies("json") :
         LET url_picker_prompt == UrlPickerPrompt(frame.prompt, frame.search_results)
             url_picker_prompts == HistoryList(frame.history) \o <<url_picker_prompt>>
             parsed == safe_read_json(resp)
             url == UrlOf(parsed.val)
         IN
         /\ calls' = Append(calls, LlmCall(url_picker_prompts, "json",
                                           Temperature("online"), resp))
         /\ chat_history' =
              [chat_history EXCEPT !["online"] = Record(@, url_picker_prompt, resp)]
         /\ frame' = [frame EXCEPT
                        !.url = url.val,
                        !.history = IF frame.history = None THEN None
                                    ELSE PyList(url_picker_prompts)]
         /\ IF url.exc # ""
            THEN /\ ret' = [op |-> "search", val |-> Raised(url.exc)]
                 /\ warned' = warned \cup (IF parsed.warned THEN {JsonWarning} ELSE {})
                 /\ pc' = "idle"
            ELSE IF url.abort
            THEN /\ ret' = [op |-> "search", val |-> None]
                 /\ warned' = warned \cup {UrlWarning}
                                \cup (IF parsed.warned THEN {JsonWarning} ELSE {})
                 /\ pc' = "idle"
            ELSE /\ pc' = "fetch"
                 /\ UNCHANGED <<ret, warned>>
    /\ UNCHANGED <<read_function, stream, threads>>
    /\ UNCHANGED <<llm, functions, functions_dict, schema, system_prompt,
                   invoked, ops, searches, base>>

\* stage 3, agents.py:540-561
SearchSelection ==
    /\ pc = "selection"
    /\ \E resp \in Replies("json") :
         LET url_picker_prompt == UrlPickerPrompt(frame.prompt, frame.search_results)
             url_picker_prompts == HistoryList(frame.history) \o <<url_picker_prompt>>
             parsed == safe_read_json(resp)
             url == UrlOf(parsed.val)
         IN
         /\ calls' = Append(calls, LlmCall(url_picker_prompts, "json",
                                           Temperature("online"), resp))
         /\ chat_history' =
              [chat_history EXCEPT !["online"] = Record(@, url_picker_prompt, resp)]
         /\ frame' = [frame EXCEPT !.url = url.val]
         /\ IF url.exc # ""
            THEN /\ ret' = [op |-> "search", val |-> Raised(url.exc)]
                 /\ warned' = warned \cup (IF parsed.warned THEN {JsonWarning} ELSE {})
                 /\ pc' = "idle"
            ELSE IF url.abort
            THEN /\ ret' = [op |-> "search", val |-> None]
                 /\ warned' = warned \cup {UrlWarning}
                                \cup (IF parsed.warned THEN {JsonWarning} ELSE {})
                 /\ pc' = "idle"
            ELSE /\ pc' = "fetch"
                 /\ UNCHANGED <<ret, warned>>
    /\ UNCHANGED <<read_function, stream, threads>>
    /\ UNCHANGED <<llm, functions, functions_dict, schema, system_prompt,
                   invoked, ops, searches, base>>

\* stage 4 giving up when the site reader returns None
SearchFetchAborting ==
    /\ pc = "fetch"
    /\ \E website_text \in SiteTexts :
         /\ calls' = Append(calls,
                        CollaboratorCall("site_reader_function", frame.url, website_text))
         /\ frame' = [frame EXCEPT !.website_text = website_text,
                        !.user_prompt = SynthesisPrompt(frame.url, website_text,
                                                        frame.prompt)]
         /\ IF website_text = None
            THEN pc' = "idle" /\ ret' = [op |-> "search", val |-> None]
            ELSE pc' = "synthesis" /\ UNCHANGED ret
    /\ UNCHANGED <<read_function, stream, threads>>
    /\ UNCHANGED <<llm, functions, functions_dict, schema, system_prompt,
                   chat_history, warned, invoked, ops, searches, base>>

\* stage 4 reading the site a second time when the first read gave None
SearchFetchRetry ==
    /\ pc = "fetch"
    /\ \E website_text \in SiteTexts, again \in SiteTexts :
         LET read == CollaboratorCall("site_reader_function", frame.url, website_text)
             reread == CollaboratorCall("site_reader_function", frame.url, again)
             text == IF website_text = None THEN again ELSE website_text
         IN
         /\ calls' = IF website_text = None
                     THEN calls \o <<read, reread>> ELSE Append(calls, read)
         /\ frame' = [frame EXCEPT
                        !.website_text = text,
                        !.user_prompt = SynthesisPrompt(frame.url, text, frame.prompt)]
    /\ pc' = "synthesis"
    /\ UNCHANGED <<read_function, stream, threads>>
    /\ UNCHANGED <<llm, functions, functions_dict, schema, system_prompt,
                   chat_history, ret, warned, invoked, ops, searches, base>>

\* stage 4, agents.py:563-574
SearchFetch ==
    /\ pc = "fetch"
    /\ \E website_text \in SiteTexts :
         /\ calls' = Append(calls,
                        CollaboratorCall("site_reader_function", frame.url, website_text))
         /\ frame' = [frame EXCEPT
                        !.website_text = website_text,
                        !.user_prompt = SynthesisPrompt(frame.url, website_text,
                                                        frame.prompt)]
    /\ pc' = "synthesis"
    /\ UNCHANGED <<read_function, stream, threads>>
    /\ UNCHANGED <<llm, functions, functions_dict, schema, system_prompt,
                   chat_history, ret, warned, invoked, ops, searches, base>>

\* stage 5 with the final responder recording into the OnlineAgent's list
\* (one chat_history list shared by the two instances)
SearchSynthesisShared ==
    /\ pc = "synthesis"
    /\ \E response \in Replies(Format("final_responder")) :
         LET prompts == AskPrompts("final_responder", frame.user_prompt, None,
                                   frame.history)
         IN
         /\ calls' = Append(calls, LlmCall(prompts, Format("final_responder"),
                                           Temperature("final_responder"), response))
         /\ chat_history' =
              [chat_history EXCEPT
                 !["final_responder"] = AskRecord(chat_history["online"], prompts, response),
                 !["online"] = Record(AskRecord(@, prompts, response),
                                      make_prompt("user", frame.user_prompt, None),
                                      response)]
         /\ ret' = [op |-> "search", val |-> PyText(response)]
    /\ pc' = "idle"
    /\ UNCHANGED <<read_function, stream, threads>>
    /\ UNCHANGED <<llm, functions, functions_dict, schema, system_prompt, frame,
                   warned, invoked, ops, searches, base>>

\* stage 5, agents.py:576-582: a fresh Agent answers, then the exchange is
\* appended to the OnlineAgent's ledger too.  The llm_has_ask test of
\* Agent.ask passes here: stage 1 called self.llm.ask on the same object.
SearchSynthesis ==
    /\ pc = "synthesis"
    /\ \E response \in Replies(Format("final_responder")) :
         LET prompts == AskPrompts("final_responder", frame.user_prompt, None,
                                   frame.history)
         IN
         /\ calls' = Append(calls, LlmCall(prompts, Format("final_responder"),
                                           Temperature("final_responder"), response))
         /\ chat_history' =
              [chat_history EXCEPT
                 !["final_responder"] = AskRecord(<<>>, prompts, response),
                 !["online"] = Record(@, make_prompt("user", frame.user_prompt, None),
                                      response)]
         /\ ret' = [op |-> "search", val |-> PyText(response)]
    /\ pc' = "idle"
    /\ UNCHANGED <<read_function, stream, threads>>
    /\ UNCHANGED <<llm, functions, functions_dict, schema, system_prompt, frame,
                   warned, invoked, ops, searches, base>>

Next ==
    \/ Ask
    \/ GetFunction
    \/ SearchQueryFormulation
    \/ SearchRetrieval
    \/ SearchSelection
    \/ SearchFetch
    \/ SearchSynthesis

Spec == Init /\ [][Next]_vars

\* ---------------------------------------------------- WebsiteReaderAgent.ask
ReadFunctions == {"read_website", "custom_site_reader"}

Urls == {PyStr("http://u1")}

CouldNotBeRead == PyStr("Website could not be read")

\* agents.py:444-458: the agent built with or without a custom_site_reader
InitReader ==
    /\ AgentsConstructed
    /\ read_function \in ReadFunctions
    /\ stream = NoStream
    /\ threads = NoThreads

\* agents.py:460-491
WebsiteReaderAsk ==
    /\ pc = "idle"
    /\ ops < MaxOps
    /\ \E question \in Questions, url \in Urls, history \in Histories :
         IF ~llm_has_ask(llm)
         THEN /\ ret' = [op |-> "reader.ask", val |-> None]
              /\ warned' = {HasAskWarning}
              /\ calls' = <<>>
              /\ frame' = [NoFrame EXCEPT !.prompt = question, !.history = history,
                                          !.url = url]
              /\ UNCHANGED chat_history
         ELSE \E page \in SiteTexts, response \in Replies("") :
                LET website_content == IF page = None THEN CouldNotBeRead ELSE page
                    syst_prompt ==
                        make_prompt("system",
                                    system_prompt["reader"].content \o StrOf(url)
                                        \o StrOf(website_content), None)
                    user_prompt == make_prompt("user", question, None)
                    prompts == <<syst_prompt>> \o HistoryList(history) \o <<user_prompt>>
                IN
                /\ calls' = <<CollaboratorCall("read_website", url, page),
                              LlmCall(prompts, "", Temperature("reader"), response)>>
                /\ chat_history' =
                     [chat_history EXCEPT !["reader"] = Record(@, user_prompt, response)]
                /\ ret' = [op |-> "reader.ask", val |-> PyText(response)]
                /\ warned' = {}
                /\ frame' = [NoFrame EXCEPT !.prompt = question, !.history = history,
                                            !.url = url, !.website_text = website_content]
    /\ ops' = ops + 1
    /\ base' = chat_history
    /\ UNCHANGED <<llm, functions, functions_dict, schema, system_prompt, pc,
                   invoked, searches, read_function, stream, threads>>

NextReader == WebsiteReaderAsk

SpecReader == InitReader /\ [][NextReader]_vars

\* ------------------------------------- OnlineAgent.search from two threads
\* Two threads call search(prompt) on the one OnlineAgent.  A thread can be
\* preempted at every external call and between any two statements, so each
\* external call and each chat_history.append is a step of its own; append
\* itself is atomic.  `entries` lists the ledger positions the call wrote and
\* `overlapped` tells whether the other call ran while this one did; both
\* are bookkeeping, not state of the program.
ThreadIds == {"t1", "t2"}

ThreadJsonReplies ==
    { <<"{", "q_Q", "}">>, <<"{", "u_U1", "}">>, <<"5">> }

ThreadTextReplies == { <<"it is 20">> }

NewThread ==
    [pc |-> "new", stage |-> "none", prompt |-> <<>>, user |-> None,
     response |-> <<>>, query |-> None, search_results |-> <<>>, url |-> None,
     user_prompt |-> <<>>, ret |-> [t |-> "pending"], entries |-> <<>>,
     overlapped |-> FALSE]

Running(th) == th.pc \notin {"new", "done"}

InitThreads ==
    /\ AgentsConstructed
    /\ functions = <<add, multiply>>
    /\ read_function = "read_website"
    /\ stream = NoStream
    /\ threads = [t \in ThreadIds |-> NewThread]

ThreadFrame ==
    /\ UNCHANGED <<llm, functions, functions_dict, schema, system_prompt, pc,
                   frame, ret, calls, warned, invoked, ops, searches, base,
                   read_function, stream>>

\* search is entered and get_search_query asks the model, agents.py:533, 585-588
ThreadQueryCall(t) ==
    /\ threads[t].pc = "new"
    /\ \E prompt \in Questions :
         IF ~llm_has_ask(llm)
         THEN threads' = [threads EXCEPT
                            ![t].pc = "done", ![t].prompt = prompt,
                            ![t].ret = Raised("AttributeError")]
         ELSE \E response \in ThreadJsonReplies :
                threads' =
                  [u \in ThreadIds |->
                     IF u = t
                     THEN [threads[t] EXCEPT
                             !.pc = "append_user", !.stage = "query",
                             !.prompt = prompt,
                             !.user = make_prompt("user", prompt, None),
                             !.response = response,
                             !.overlapped = \E o \in ThreadIds \ {t} : Running(threads[o])]
                     ELSE [threads[u] EXCEPT
                             !.overlapped = @ \/ Running(threads[u])]]
    /\ UNCHANGED chat_history
    /\ ThreadFrame

\* self.chat_history.append(<the user message>), agents.py:589, 552, 579
\* with the message put at the head of the list instead
ThreadAppendUserAtHead(t) ==
    /\ threads[t].pc = "append_user"
    /\ chat_history' =
         [chat_history EXCEPT !["online"] = <<threads[t].user>> \o @]
    /\ threads' =
         [u \in ThreadIds |->
            LET moved == [threads[u] EXCEPT
                            !.entries = [k \in 1..Len(@) |-> @[k] + 1]]
            IN IF u = t
               THEN [moved EXCEPT !.pc = "append_assistant",
                                  !.entries = Append(@, 1)]
               ELSE moved]
    /\ ThreadFrame

\* self.chat_history.append(<the user message>), agents.py:589, 552, 579
ThreadAppendUser(t) ==
    /\ threads[t].pc = "append_user"
    /\ chat_history' =
         [chat_history EXCEPT !["online"] = Append(@, threads[t].user)]
    /\ threads' = [threads EXCEPT
                     ![t].pc = "append_assistant",
                     ![t].entries = Append(@, Len(chat_history["online"]) + 1)]
    /\ ThreadFrame

\* self.chat_history.append(make_prompt("assistant", response)) and what
\* follows it up to the next external call or the return: agents.py:590-594
\* with 534-535, agents.py:553-561, agents.py:580-582
ThreadAppendAssistant(t) ==
    /\ threads[t].pc = "append_assistant"
    /\ chat_history' =
         [chat_history EXCEPT
            !["online"] = Append(@, make_prompt("assistant", threads[t].response, None))]
    /\ LET th == [threads[t] EXCEPT
                    !.entries = Append(@, Len(chat_history["online"]) + 1)]
           parsed == safe_read_json(th.response)
           query == QueryOf(parsed.val)
           url == UrlOf(parsed.val)
       IN threads' =
            [threads EXCEPT
               ![t] =
                 IF th.stage = "query"
                 THEN IF query.exc # ""
                      THEN [th EXCEPT !.pc = "done", !.ret = Raised(query.exc)]
                      ELSE IF query.val = None
                      THEN [th EXCEPT !.pc = "done", !.ret = None]
                      ELSE [th EXCEPT !.pc = "retrieval", !.query = query.val]
                 ELSE IF th.stage = "selection"
                 THEN IF url.exc # ""
                      THEN [th EXCEPT !.pc = "done", !.ret = Raised(url.exc)]
                      ELSE IF url.abort
                      THEN [th EXCEPT !.pc = "done", !.ret = None]
                      ELSE [th EXCEPT !.pc = "fetch", !.url = url.val]
                 ELSE [th EXCEPT !.pc = "done", !.ret = PyText(th.response)]]
    /\ ThreadFrame

\* agents.py:537-538
ThreadRetrieval(t) ==
    /\ threads[t].pc = "retrieval"
    /\ \E results \in SearchResults :
         threads' = [threads EXCEPT ![t].pc = "selection",
                                    ![t].search_results = json_dumps(results)]
    /\ UNCHANGED chat_history
    /\ ThreadFrame

\* agents.py:540-550
ThreadSelectionCall(t) ==
    /\ threads[t].pc = "selection"
    /\ \E resp \in ThreadJsonReplies :
         threads' = [threads EXCEPT
                       ![t].pc = "append_user", ![t].stage = "selection",
                       ![t].user = UrlPickerPrompt(threads[t].prompt,
                                                   threads[t].search_results),
                       ![t].response = resp]
    /\ UNCHANGED chat_history
    /\ ThreadFrame

\* agents.py:563-574
ThreadFetch(t) ==
    /\ threads[t].pc = "fetch"
    /\ \E website_text \in SiteTexts :
         threads' = [threads EXCEPT
                       ![t].pc = "synthesis",
                       ![t].user_prompt = SynthesisPrompt(threads[t].url, website_text,
                                                          threads[t].prompt)]
    /\ UNCHANGED chat_history
    /\ ThreadFrame

\* agents.py:576-577: the thread's own final responder asks and records in
\* its own ledger
ThreadSynthesisCall(t) ==
    /\ threads[t].pc = "synthesis"
    /\ \E response \in ThreadTextReplies :
         /\ threads' = [threads EXCEPT
                          ![t].pc = "append_user", ![t].stage = "synthesis",
                          ![t].user = make_prompt("user", threads[t].user_prompt, None),
                          ![t].response = response]
         /\ chat_history' =
              [chat_history EXCEPT
                 !["final_responder"] =
                    AskRecord(<<>>, AskPrompts("final_responder",
                                               threads[t].user_prompt, None, None),
                              response)]
    /\ ThreadFrame

NextThreads ==
    \E t \in ThreadIds :
       \/ ThreadQueryCall(t)
       \/ ThreadAppendUser(t)
       \/ ThreadAppendAssistant(t)
       \/ ThreadRetrieval(t)
       \/ ThreadSelectionCall(t)
       \/ ThreadFetch(t)
       \/ ThreadSynthesisCall(t)

SpecThreads == InitThreads /\ [][NextThreads]_vars

\* ---------------------------------------------------------- stream_and_record
\* a chunk is a piece of text, or a dict whose "message" holds the piece
ChunkValues ==
    { PyText(<<"Hel">>),
      PyDict([k \in {"message"} |->
                PyDict([c \in {"content"} |-> PyText(<<"lo">>)])]) }

ChunkStreams == UNION {[1..n -> ChunkValues] : n \in 0..MaxChunks}

\* core.py:34-37
Content(chunk) ==
    IF chunk.t = "dict" /\ "message" \in DOMAIN chunk.m
    THEN Subscript(Subscript(chunk, "message").val, "content").val.v
    ELSE chunk.v

\* stream_and_record(stream, chat_history) was called: a generator that has
\* not run yet, over a stream, recording into the Agent's chat_history list
\* or into None
InitStream ==
    /\ AgentsConstructed
    /\ read_function = "read_website"
    /\ threads = NoThreads
    /\ stream \in {[state |-> "created", source |-> src, pending |-> src,
                     chunks |-> <<>>, yielded |-> <<>>, chat_history |-> target] :
                      src \in ChunkStreams, target \in {None, PyStr("agent")}}

\* the consumer asks for the next item and the stream has one: the body of
\* the loop up to the yield, core.py:33-38
StreamYield ==
    /\ stream.state \in {"created", "suspended"}
    /\ stream.pending # <<>>
    /\ LET content == Content(Head(stream.pending)) IN
         stream' = [stream EXCEPT !.state = "suspended",
                                  !.pending = Tail(@),
                                  !.chunks = Append(@, content),
                                  !.yielded = Append(@, content)]
    /\ UNCHANGED <<llm, functions, functions_dict, schema, system_prompt,
                   chat_history, pc, frame, ret, calls, warned, invoked, ops,
                   searches, base, read_function, threads>>

\* the consumer asks for the next item and the stream is exhausted: the loop
\* ends and the record is made, core.py:39-41
StreamExhausted ==
    /\ stream.state \in {"created", "suspended"}
    /\ stream.pending = <<>>
    /\ stream' = [stream EXCEPT !.state = "finished"]
    /\ chat_history' =
         IF stream.chat_history = None THEN chat_history
         ELSE [chat_history EXCEPT
                 ![stream.chat_history.v] =
                    Append(@, make_prompt("assistant", Flatten(stream.chunks), None))]
    /\ UNCHANGED <<llm, functions, functions_dict, schema, system_prompt,
                   pc, frame, ret, calls, warned, invoked, ops,
                   searches, base, read_function, threads>>

\* the consumer stopping early with the record made all the same (the
\* append in a finally block)
StreamCloseRecording ==
    /\ stream.state \in {"created", "suspended"}
    /\ stream' = [stream EXCEPT !.state = "closed"]
    /\ chat_history' =
         IF stream.chat_history = None THEN chat_history
         ELSE [chat_history EXCEPT
                 ![stream.chat_history.v] =
                    Append(@, make_prompt("assistant", Flatten(stream.chunks), None))]
    /\ UNCHANGED <<llm, functions, functions_dict, schema, system_prompt,
                   pc, frame, ret, calls, warned, invoked, ops,
                   searches, base, read_function, threads>>

\* the consumer stops early: the generator is closed where it stands, at the
\* yield of core.py:38 or before its first statement, and nothing after the
\* loop runs
StreamClose ==
    /\ stream.state \in {"created", "suspended"}
    /\ stream' = [stream EXCEPT !.state = "closed"]
    /\ UNCHANGED <<llm, functions, functions_dict, schema, system_prompt,
                   chat_history, pc, frame, ret, calls, warned, invoked, ops,
                   searches, base, read_function, threads>>

NextStream ==
    \/ StreamYield
    \/ StreamExhausted
    \/ StreamClose

SpecStream == InitStream /\ [][NextStream]_vars

\* ------------------------------------------------- the helpers of core.py
\* safe_read_json applied to an arbitrary text, and FunctionCaller built
\* from an arbitrary list of callables
CoreTokens == {"{", "}", "p_P1", "Sure:", "5"}

\* objects with a string value that holds a brace, bare and wrapped in prose
StringBraceTexts ==
    {pre \o <<"{">> \o ms \o <<StrOpen, b, StrClose, "}">> \o suf :
       pre \in {<<>>, <<"Sure:">>}, ms \in {<<>>, <<"p_P1">>},
       b \in {"{", "}"}, suf \in {<<>>, <<"Done.">>}}

Texts == UNION {[1..n -> CoreTokens] : n \in 0..MaxLen} \cup StringBraceTexts

SchemaInputs == UNION {[1..n -> {add, multiply, add_again}] : n \in 0..MaxFuncs}

\* before the call: the text is the argument `response`, the list the
\* argument `functions`; one of the two is drawn, the other is empty
InitCore ==
    /\ llm = "OllamaChat"
    /\ functions \in SchemaInputs
    /\ frame \in {[NoFrame EXCEPT !.response = text] : text \in Texts}
    /\ (functions = <<>> \/ frame.response = <<>>)
    /\ functions_dict = FunctionsDict(<<>>)
    /\ schema = <<>>
    /\ read_function = "read_website"
    /\ stream = NoStream
    /\ threads = NoThreads
    /\ system_prompt =
         [i \in Instances |->
            IF i = "fc" THEN SystemPrompt("FunctionCaller", <<>>)
            ELSE IF i = "online" THEN SystemPrompt("OnlineSearcher", <<>>)
            ELSE IF i = "reader" THEN SystemPrompt("WebsiteReader", <<>>)
            ELSE SystemPrompt("GenericResponder", <<>>)]
    /\ chat_history = [i \in Instances |-> <<>>]
    /\ pc = "idle"
    /\ ret = [op |-> "none", val |-> None]
    /\ calls = <<>>
    /\ warned = {}
    /\ invoked = <<>>
    /\ ops = 0
    /\ searches = 0
    /\ base = [i \in Instances |-> <<>>]

\* safe_read_json(response), core.py:138-153
SafeReadJson ==
    /\ ret.op = "none"
    /\ LET parsed == safe_read_json(frame.response) IN
         /\ ret' = [op |-> "safe_read_json", val |-> parsed.val]
         /\ warned' = IF parsed.warned THEN {JsonWarning} ELSE {}
    /\ UNCHANGED <<read_function, stream, threads>>
    /\ UNCHANGED <<llm, functions, functions_dict, schema, system_prompt,
                   chat_history, pc, frame, calls, invoked, ops, searches, base>>

\* FunctionCaller.__init__, agents.py:343-355
FunctionCallerInit ==
    /\ ret.op = "none"
    /\ functions_dict' = FunctionsDict(functions)
    /\ schema' = generate_schema(functions)
    /\ system_prompt' =
         [system_prompt EXCEPT
            !["fc"] = SystemPrompt("FunctionCaller",
                                   SchemaText(generate_schema(functions)))]
    /\ ret' = [op |-> "FunctionCaller", val |-> None]
    /\ UNCHANGED <<read_function, stream, threads>>
    /\ UNCHANGED <<llm, functions, chat_history, pc, frame, calls, warned,
                   invoked, ops, searches, base>>

NextCore ==
    \/ SafeReadJson
    \/ FunctionCallerInit

SpecCore == InitCore /\ [][NextCore]_vars

\* ====================================================================
\* Properties
\* ====================================================================
\* the reply of the n-th external call of the running (or last) operation
ReplyOf(n) == calls[n].returned.v
ParsedReply(n) == safe_read_json(ReplyOf(n)).val

\* get_function asked the model and returned or raised
GetFunctionAnswered == ret.op = "get_function" /\ Len(calls) = 1

ReplyLacks(n, key) == ParsedReply(n).t = "dict" /\ key \notin DOMAIN ParsedReply(n).m

ReplyNamesUnknown(n) ==
    /\ ParsedReply(n).t = "dict"
    /\ "function" \in DOMAIN ParsedReply(n).m
    /\ ParsedReply(n).m["function"].t = "str"
    /\ ParsedReply(n).m["function"].v \notin {functions[i].name : i \in 1..Len(functions)}

\* C1: get_function returns None whenever the object parsed from the reply
\* has no "function" field, has no "parameters" field, or names a function
\* that is not among the registered ones.
C1_MissingOrUnknownReturnsNull ==
    (GetFunctionAnswered
       /\ (ReplyLacks(1, "function") \/ ReplyLacks(1, "parameters")
             \/ ReplyNamesUnknown(1)))
    => ret.val = None

\* a reply with a registered function and no "parameters" returned None
C1_Witness ==
    /\ GetFunctionAnswered
    /\ ReplyLacks(1, "parameters")
    /\ ~ReplyLacks(1, "function")
    /\ ~ReplyNamesUnknown(1)
    /\ ret.val = None
    /\ NoFunctionWarning \in warned

\* C2: a result of get_function that is not None has `function` the callable
\* registered (last) under the name the reply gives, a callable of the list
\* the caller registered; `parameters` the reply's "parameters" value; and
\* `raw_response` the reply text as the model sent it.
C2_ResultMatchesReply ==
    (GetFunctionAnswered /\ ret.val.t = "dispatch")
    => /\ ParsedReply(1).t = "dict"
       /\ \E i \in 1..Len(functions) :
            /\ functions[i].name = ParsedReply(1).m["function"].v
            /\ \A j \in (i + 1)..Len(functions) : functions[j].name # functions[i].name
            /\ ret.val.function = functions[i]
       /\ ret.val.function \in {functions_dict[n] : n \in DOMAIN functions_dict}
       /\ ret.val.parameters = ParsedReply(1).m["parameters"]
       /\ ret.val.raw_response = ReplyOf(1)

\* the reply wrapped in prose was dispatched to multiply
C2_Witness ==
    /\ GetFunctionAnswered
    /\ ret.val.t = "dispatch"
    /\ ret.val.function = multiply
    /\ ret.val.parameters = P1
    /\ json_loads(ReplyOf(1)).ok = FALSE

\* C3: no registered callable is ever called, neither by the constructor
\* nor by any get_function, whatever the model replies.
C3_NeverInvokes == invoked = <<>>

\* get_function selected a function and nothing was called
C3_Witness ==
    /\ GetFunctionAnswered
    /\ ret.val.t = "dispatch"
    /\ invoked = <<>>
    /\ ops = MaxOps

\* ------------------------------------------------------- OnlineAgent.search
\* which of the five calls of search a logged call is, read off what was sent
CallKind(c) ==
    IF c.callee # "llm.ask" THEN c.callee
    ELSE LET ps == c.args.prompts
             last == ps[Len(ps)]
         IN IF Len(ps) = 2 /\ ps[1] = system_prompt["online"] /\ last.role = "user"
            THEN "llm.ask:query"
            ELSE IF Head(last.content) = "UrlPicker"
            THEN "llm.ask:selection"
            ELSE IF /\ ps[1] = system_prompt["final_responder"]
                    /\ last.content[Len(last.content)] = AttributionInstruction
            THEN "llm.ask:synthesis"
            ELSE "llm.ask:other"

SearchCallOrder ==
    <<"llm.ask:query", "search_function", "llm.ask:selection",
      "site_reader_function", "llm.ask:synthesis">>

SearchAsked == ret.op = "search" /\ Len(calls) >= 1
SearchReturned == ret.op = "search" /\ pc = "idle"
SearchAnswered == SearchReturned /\ ret.val.t = "text"

\* the n-th reply gives no field `key`: it is unparsable (or null), an object
\* without the key, or an array
NoField(n, key) ==
    \/ ParsedReply(n) = None
    \/ ReplyLacks(n, key)
    \/ ParsedReply(n).t = "list"

\* C4: when the query-formulation reply gives no "search_query" (it is
\* unparsable, or parses to something without that field), search returns
\* None having made the one model call only: no search, no fetch, no further
\* model call.
C4_NoQueryShortCircuits ==
    (SearchAsked /\ NoField(1, "search_query"))
    => /\ pc = "idle"
       /\ ret.val = None
       /\ Len(calls) = 1
       /\ CallKind(calls[1]) = "llm.ask:query"

\* an object without "search_query" made search return None after one call
C4_Witness ==
    /\ SearchReturned
    /\ Len(calls) = 1
    /\ ReplyLacks(1, "search_query")
    /\ "url" \in DOMAIN ParsedReply(1).m
    /\ ret.val = None

\* a URL value is a string; null is none
IsUrlValue(v) == v.t = "str"

LacksValidUrl(n) ==
    \/ ParsedReply(n).t # "dict"
    \/ "url" \notin DOMAIN ParsedReply(n).m
    \/ ~IsUrlValue(ParsedReply(n).m["url"])

\* C5 (as claimed): when the selection reply lacks a valid url field (it is
\* no object, has no "url", or its "url" is not a URL value), search stops
\* there without a result: the site reader and the synthesis model call are
\* never made.  Raising counts as stopping here.
C5_InvalidUrlAborts ==
    (ret.op = "search" /\ Len(calls) >= 3 /\ LacksValidUrl(3))
    => /\ pc = "idle"
       /\ ret.val.t \in {"None", "raised"}
       /\ Len(calls) = 3

\* C6: when the site reader returns None, search goes on to the synthesis
\* call and returns that call's reply, a text and not None; the prompt of
\* that call asks for the attribution phrase.
C6_NullFetchStillAnswers ==
    (ret.op = "search" /\ Len(calls) >= 4 /\ calls[4].returned = None)
    => /\ Len(calls) = 4 => pc = "synthesis"
       /\ pc = "idle" =>
            /\ Len(calls) = 5
            /\ CallKind(calls[5]) = "llm.ask:synthesis"
            /\ ret.val = calls[5].returned
            /\ ret.val.t = "text"

\* search answered although the site reader had returned None
C6_Witness ==
    /\ SearchAnswered
    /\ Len(calls) = 5
    /\ calls[4].callee = "site_reader_function"
    /\ calls[4].returned = None
    /\ ret.val.v = ReplyOf(5)

ContentSentinel == PyStr("content not available")

\* C7 (as claimed): when the site reader returns None, the synthesis prompt
\* holds the sentinel text "content not available" where the content goes,
\* not a rendering of None.
C7_SentinelForNullContent ==
    (ret.op = "search" /\ Len(calls) >= 4 /\ calls[4].returned = None)
    => frame.user_prompt = SynthesisPrompt(frame.url, ContentSentinel, frame.prompt)

\* C8: the external calls of one search are, in this order and each at most
\* once, model (query), search function, model (selection), site reader,
\* model (synthesis); a call is made only when the abort condition before it
\* let the run continue; a run that returns an answer made all five.
C8_FiveCallsInOrder ==
    ret.op = "search"
    => /\ Len(calls) <= Len(SearchCallOrder)
       /\ \A i \in 1..Len(calls) : CallKind(calls[i]) = SearchCallOrder[i]
       /\ pc = "retrieval" => Len(calls) = 1
       /\ pc = "selection" => Len(calls) = 2
       /\ pc = "fetch" => Len(calls) = 3
       /\ pc = "synthesis" => Len(calls) = 4
       /\ Len(calls) >= 2 =>
            /\ ~NoField(1, "search_query")
            /\ calls[2].args = ParsedReply(1).m["search_query"]
       /\ Len(calls) >= 4 =>
            /\ ~NoField(3, "url")
            /\ calls[4].args = ParsedReply(3).m["url"]
       /\ SearchAnswered => Len(calls) = Len(SearchCallOrder)

\* a search with a history answered from a page that was read
C8_Witness ==
    /\ SearchAnswered
    /\ [i \in 1..Len(calls) |-> CallKind(calls[i])] = SearchCallOrder
    /\ calls[4].returned # None
    /\ frame.history # None

\* the instance whose operation ran last, and what that operation appended
Owner == IF ret.op = "ask" THEN "agent"
         ELSE IF ret.op = "get_function" THEN "fc" ELSE "online"

Succeeded == pc = "idle" /\ ret.val.t \in {"text", "dispatch"}

NewEntries == SubSeq(chat_history[Owner], Len(base[Owner]) + 1, Len(chat_history[Owner]))

AppendedAfterExisting ==
    /\ Len(chat_history[Owner]) >= Len(base[Owner])
    /\ SubSeq(chat_history[Owner], 1, Len(base[Owner])) = base[Owner]

\* C9 (as claimed): a successful ask, get_function or search leaves exactly
\* two new entries, [user, assistant], after the entries the ledger had.
C9_OnePairPerCall ==
    Succeeded
    => /\ AppendedAfterExisting
       /\ Len(NewEntries) = 2
       /\ NewEntries[1].role = "user"
       /\ NewEntries[2].role = "assistant"

\* C9 (amended): a successful ask or get_function leaves exactly [user
\* (the question), assistant (the reply)] after the entries the ledger had;
\* a successful search leaves three such pairs, six entries; no message
\* of the supplied history is added, whatever its length.
C9_PairsPerModelCall ==
    Succeeded
    => /\ AppendedAfterExisting
       /\ Len(NewEntries) = IF ret.op = "search" THEN 6 ELSE 2
       /\ \A i \in 1..Len(NewEntries) :
            NewEntries[i].role = IF i % 2 = 1 THEN "user" ELSE "assistant"
       /\ ret.op # "search" =>
            /\ NewEntries[1].content = frame.prompt
            /\ NewEntries[2] = make_prompt("assistant", ReplyOf(1), None)

\* get_function succeeded with a history, on a ledger that had entries
C9_Witness ==
    /\ Succeeded
    /\ ret.op = "get_function"
    /\ frame.history # None
    /\ Len(base["fc"]) = 2
    /\ Len(chat_history["fc"]) = 4

\* the content of the last message sent in the n-th call
SentContent(n) == calls[n].args.prompts[Len(calls[n].args.prompts)].content

\* C10: a search that returns an answer leaves in the OnlineAgent's ledger,
\* after what it held, six messages: user (question), assistant (query
\* reply), user (url picker prompt), assistant (selection reply), user
\* (synthesis prompt), assistant (answer); each entry one message.
C10_FlatTranscript ==
    SearchAnswered
    => /\ chat_history["online"] =
            base["online"] \o
            << [role |-> "user", content |-> frame.prompt],
               [role |-> "assistant", content |-> ReplyOf(1)],
               [role |-> "user", content |-> SentContent(3)],
               [role |-> "assistant", content |-> ReplyOf(3)],
               [role |-> "user", content |-> SentContent(5)],
               [role |-> "assistant", content |-> ret.val.v] >>
       /\ Head(SentContent(3)) = "UrlPicker"
       /\ SentContent(5) = frame.user_prompt
       /\ ret.val.v = ReplyOf(5)

\* a search answered after another operation, for a null url
C10_Witness ==
    /\ SearchAnswered
    /\ Len(chat_history["online"]) = 6
    /\ frame.url = None
    /\ ops = 2

\* ------------------------------------------------------------- the ledgers
IsPrefix(s, t) == Len(s) <= Len(t) /\ SubSeq(t, 1, Len(s)) = s

\* the instances the caller constructs and keeps; a final responder is a new
\* instance in every search
CallerInstances == {"agent", "fc", "online"}

\* C11: every step of every operation leaves each ledger of a caller-held
\* instance extended at its end only: the ledger before the step is a prefix
\* of the ledger after it, nothing is removed, reordered, replaced or cut off.
C11_AppendOnly ==
    [][\A i \in CallerInstances : IsPrefix(chat_history[i], chat_history'[i])]_vars

\* a second ask extended a ledger that held the first exchange
C11_Witness ==
    /\ ret.op = "ask"
    /\ Len(base["agent"]) = 2
    /\ Len(chat_history["agent"]) = 4
    /\ IsPrefix(base["agent"], chat_history["agent"])

\* the messages exchanged with the model in the running (or last) operation,
\* system prompt and supplied history aside: per model call, the user
\* message built for it and the reply
ExchangedPairs ==
    Flatten([n \in 1..Len(calls) |->
               IF calls[n].callee = "llm.ask"
               THEN <<calls[n].args.prompts[Len(calls[n].args.prompts)],
                      [role |-> "assistant", content |-> ReplyOf(n)]>>
               ELSE <<>>])

\* C12: no ledger holds a system-role message; what an operation has added
\* to its instance's ledger is, in order, the user message it built and the
\* reply of each model call it made, also when the ledger already holds the
\* same question (no deduplication).
C12_ExchangedNonSystemOnly ==
    /\ \A i \in Instances : \A k \in 1..Len(chat_history[i]) :
          chat_history[i][k].role \in {"user", "assistant"}
    /\ ret.op # "none" =>
          /\ AppendedAfterExisting
          /\ NewEntries = ExchangedPairs

\* the same question asked twice and answered alike is in the ledger twice
C12_Witness ==
    /\ ret.op = "get_function"
    /\ frame.history = None
    /\ Len(chat_history["fc"]) = 4
    /\ chat_history["fc"][3] = chat_history["fc"][1]
    /\ chat_history["fc"][4] = chat_history["fc"][2]

\* ------------------------------------------------------------ error paths
\* C13 (as claimed): once the model has replied, get_function and search do
\* not raise, whatever the reply text: unparsable, an array, a number, an
\* object missing its fields; the call resolves to None or to a value.
C13_NoExceptionEscapes ==
    (ret.op \in {"get_function", "search"} /\ Len(calls) >= 1)
    => ret.val.t # "raised"

\* C14 (as claimed): with an llm that has no ask, every operation (ask,
\* get_function, search) ends in an error raised to the caller, never in a
\* normal return.
C14_MissingAskIsFatal ==
    (ret.op # "none" /\ ~llm_has_ask(llm)) => ret.val.t = "raised"

\* ------------------------------------------------------------ safe_read_json
SafeReadJsonApplied == ret.op = "safe_read_json"

\* opening minus closing braces among the first i tokens
Depth(text, i) ==
    Cardinality({k \in 1..i : text[k] = "{"}) - Cardinality({k \in 1..i : text[k] = "}"})

\* text[a..b] is a complete JSON object
IsObjectAt(text, a, b) == a < b /\ IsObjectText(SubSeq(text, a, b))

NoObjectWithin(text, lo, hi) ==
    ~\E a \in lo..hi, b \in lo..hi : IsObjectAt(text, a, b)

\* C15 (as claimed): for a text prefix + J + suffix, J a complete JSON object
\* and neither prefix nor suffix containing a complete JSON object,
\* safe_read_json returns the object J.
C15_ReturnsEmbeddedObject ==
    SafeReadJsonApplied
    => \A a \in 1..Len(frame.response), b \in 1..Len(frame.response) :
         (/\ IsObjectAt(frame.response, a, b)
          /\ NoObjectWithin(frame.response, 1, a - 1)
          /\ NoObjectWithin(frame.response, b + 1, Len(frame.response)))
         => ret.val = ObjectOf(SubSeq(frame.response, a, b))

\* the braces of the text are well nested
WellNested(text) ==
    /\ \A i \in 1..Len(text) : Depth(text, i) >= 0
    /\ Depth(text, Len(text)) = 0

\* the balanced brace regions at depth 0, as <<first, last>> index pairs
TopRegions(text) ==
    {r \in (1..Len(text)) \X (1..Len(text)) :
       /\ r[1] < r[2]
       /\ text[r[1]] = "{"
       /\ Depth(text, r[1] - 1) = 0
       /\ Depth(text, r[2]) = 0
       /\ \A k \in r[1]..(r[2] - 1) : Depth(text, k) > 0}

ParsingRegions(text) ==
    {r \in TopRegions(text) : json_loads(SubSeq(text, r[1], r[2])).ok}

\* C16 (as claimed): for a text of well nested braces with several balanced
\* regions, safe_read_json returns the first region that parses as JSON,
\* skipping earlier regions that do not.
C16_FirstParsingRegion ==
    (/\ SafeReadJsonApplied
     /\ WellNested(frame.response)
     /\ Cardinality(TopRegions(frame.response)) >= 2
     /\ ParsingRegions(frame.response) # {})
    => LET first == CHOOSE r \in ParsingRegions(frame.response) :
                      \A q \in ParsingRegions(frame.response) : r[1] <= q[1]
       IN ret.val = json_loads(SubSeq(frame.response, first[1], first[2])).val

\* no opening brace is followed by a closing one: no balanced region at all
NoBalancedRegion(text) ==
    ~\E a \in 1..Len(text), b \in 1..Len(text) :
        a < b /\ text[a] = "{" /\ text[b] = "}"

\* C17: for a text that is not valid JSON and has no balanced brace region,
\* safe_read_json returns None, having emitted its warning, and does not
\* raise.
C17_NoRegionGivesNullAndWarning ==
    (/\ SafeReadJsonApplied
     /\ ~json_loads(frame.response).ok
     /\ NoBalancedRegion(frame.response))
    => /\ ret.val = None
       /\ JsonWarning \in warned

\* a text whose only braces are a closing one before an opening one
C17_Witness ==
    /\ SafeReadJsonApplied
    /\ frame.response = <<"}", "Sure:", "{">>
    /\ ret.val = None
    /\ warned = {JsonWarning}

FunctionCallerBuilt == ret.op = "FunctionCaller"

ParamNames(params) == [j \in 1..Len(params) |-> params[j].name]

\* C18 (as claimed): the schema has exactly one entry per callable of the
\* list, as many entries as (distinct) callables, and each callable's entry
\* lists its parameters in declared order.
C18_OneEntryPerCallable ==
    FunctionCallerBuilt
    => /\ Len(schema) = Cardinality({functions[i] : i \in 1..Len(functions)})
       /\ \A i \in 1..Len(functions) :
            \E k \in 1..Len(schema) :
               /\ schema[k].name = functions[i].name
               /\ ParamNames(schema[k].parameters) = ParamNames(functions[i].params)

\* C19: in each schema entry, of the callable registered under its name, the
\* i-th parameter has the description of the i-th documented parameter
\* whatever that entry's name, or "None" when fewer are documented, and has
\* as default value the declared default, or the string "None" without one.
C19_DescriptionsByPosition ==
    FunctionCallerBuilt
    => \A k \in 1..Len(schema) :
         LET func == functions_dict[schema[k].name] IN
         /\ Len(schema[k].parameters) = Len(func.params)
         /\ \A i \in 1..Len(func.params) :
              /\ schema[k].parameters[i].name = func.params[i].name
              /\ schema[k].parameters[i].description =
                    IF i <= Len(func.doc.params)
                    THEN func.doc.params[i].description ELSE "None"
              /\ schema[k].parameters[i].default =
                    IF func.params[i].default = Empty
                    THEN PyStr("None") ELSE func.params[i].default

\* multiply documents only `b`: `a` got that description, `b` got "None"
\* and its declared default; the undocumented add_again got "None"
C19_Witness ==
    /\ FunctionCallerBuilt
    /\ functions = <<multiply, add_again>>
    /\ schema[1].parameters[1].name = "a"
    /\ schema[1].parameters[1].description = "the factor"
    /\ schema[1].parameters[1].default = PyStr("None")
    /\ schema[1].parameters[2].description = "None"
    /\ schema[1].parameters[2].default = PyInt(1)
    /\ schema[2].parameters[1].description = "None"

\* ------------------------------------------------------------ the instances
\* C20: a step of an operation changes the ledger of the instance it runs
\* on and of no other; registry, schema and system prompts never change.
\* The synthesis step is the one step with two instances: the final
\* responder records its exchange in its own, new ledger, and the
\* OnlineAgent's ledger gains just the pair search appends itself.
C20_NoSharedState ==
    [][/\ functions' = functions
       /\ functions_dict' = functions_dict
       /\ schema' = schema
       /\ system_prompt' = system_prompt
       /\ \A i \in Instances :
            chat_history'[i] # chat_history[i]
            => i \in (IF pc = "synthesis" THEN {"online", "final_responder"}
                      ELSE IF ret'.op = "ask" THEN {"agent"}
                      ELSE IF ret'.op = "get_function" THEN {"fc"}
                      ELSE {"online"})
       /\ pc = "synthesis" =>
            LET pair == <<[role |-> "user", content |-> frame.user_prompt],
                          [role |-> "assistant", content |-> ret'.val.v]>>
            IN /\ chat_history'["online"] = chat_history["online"] \o pair
               /\ chat_history'["final_responder"] = pair
      ]_vars

\* a search answered after an ask: each ledger holds its own exchanges only
C20_Witness ==
    /\ SearchAnswered
    /\ Len(chat_history["agent"]) = 2
    /\ chat_history["fc"] = <<>>
    /\ Len(chat_history["online"]) = 6
    /\ Len(chat_history["final_responder"]) = 2
    /\ chat_history["final_responder"] = SubSeq(chat_history["online"], 5, 6)

\* ------------------------------------------------------------ no retries
CallsTo(callee) == Cardinality({n \in 1..Len(calls) : calls[n].callee = callee})

\* C22: an invocation of get_function that reaches the model asks it once,
\* and has asked once when it returns or raises; an invocation of search
\* asks the model at most three times, the search function at most once and
\* the site reader at most once, whatever the replies and whatever the
\* collaborators return.
C22_NoRetries ==
    /\ ret.op = "get_function" =>
          /\ CallsTo("llm.ask") <= 1
          /\ llm_has_ask(llm) => CallsTo("llm.ask") = 1
          /\ Len(calls) = CallsTo("llm.ask")
    /\ ret.op = "search" =>
          /\ CallsTo("llm.ask") <= 3
          /\ CallsTo("search_function") <= 1
          /\ CallsTo("site_reader_function") <= 1

\* a search that read nothing from the site and still made five calls only
C22_Witness ==
    /\ SearchAnswered
    /\ CallsTo("llm.ask") = 3
    /\ CallsTo("search_function") = 1
    /\ CallsTo("site_reader_function") = 1
    /\ frame.website_text = None
    /\ frame.history = None

\* C23: the messages get_function sends to the model are the system prompt
\* that embeds the schema, then the supplied history in its order (nothing
\* without a history), then the user message of the question; the `prompts`
\* of a result that is not None is that sequence.
C23_PromptSequence ==
    GetFunctionAnswered
    => /\ calls[1].args.prompts =
            <<[role |-> "system",
               content |-> <<"FunctionCaller">> \o SchemaText(schema)]>>
            \o HistoryList(frame.history)
            \o <<[role |-> "user", content |-> frame.prompt]>>
       /\ ret.val.t = "dispatch" => ret.val.prompts = calls[1].args.prompts

\* a function was selected for a question asked with a history
C23_Witness ==
    /\ GetFunctionAnswered
    /\ ret.val.t = "dispatch"
    /\ frame.history # None
    /\ Len(ret.val.prompts) = 2 + Len(frame.history.v)
    /\ ret.val.prompts[2] = HistoryMessage

\* ------------------------------------------------- exchanges always recorded
\* C26: the ledger of the instance an operation runs on has grown by two
\* entries for every model call the operation has made, also when the
\* operation then returns None or raises: two for a get_function that
\* selected nothing, two for a search stopped at query formulation, four for
\* one stopped at selection; it is unchanged when no model call was made.
C26_TwoEntriesPerModelCall ==
    ret.op # "none"
    => /\ AppendedAfterExisting
       /\ Len(NewEntries) = 2 * CallsTo("llm.ask")
       /\ \A k \in 1..Len(NewEntries) :
            NewEntries[k].role = IF k % 2 = 1 THEN "user" ELSE "assistant"
       /\ (GetFunctionAnswered /\ ret.val.t # "dispatch") => Len(NewEntries) = 2
       /\ (SearchReturned /\ Len(calls) = 1) => Len(NewEntries) = 2
       /\ (SearchReturned /\ Len(calls) = 3) => Len(NewEntries) = 4
       /\ calls = <<>> => chat_history = base

\* a search stopped at selection left four entries
C26_Witness ==
    /\ SearchReturned
    /\ ret.val = None
    /\ Len(calls) = 3
    /\ UrlWarning \in warned
    /\ Len(NewEntries) = 4

\* ------------------------------------------------------ the supplied history
\* the messages between the first and the last of a sequence, and all but
\* the last
Middle(prompts) == SubSeq(prompts, 2, Len(prompts) - 1)
Front(prompts) == SubSeq(prompts, 1, Len(prompts) - 1)

\* C27: the history list the caller passed is as it was passed after every
\* step: the list is one the caller supplied, every model call that takes
\* the history was sent exactly its messages, the synthesis call the same
\* ones as the selection call, and no message of it is in what the
\* operation appended to the ledger.
C27_HistoryOnlyRead ==
    /\ frame.history \in Histories
    /\ (ret.op \in {"ask", "get_function"} /\ Len(calls) = 1) =>
          Middle(calls[1].args.prompts) = HistoryList(frame.history)
    /\ (ret.op = "search" /\ Len(calls) >= 3) =>
          Front(calls[3].args.prompts) = HistoryList(frame.history)
    /\ (ret.op = "search" /\ Len(calls) = 5) =>
          Middle(calls[5].args.prompts) = Front(calls[3].args.prompts)
    /\ ret.op # "none" =>
          \A k \in 1..Len(NewEntries) : NewEntries[k] # HistoryMessage

\* the first operation, a search with a history, answered
C27_Witness ==
    /\ SearchAnswered
    /\ ops = 1
    /\ frame.history = PyList(<<HistoryMessage>>)
    /\ Middle(calls[5].args.prompts) = <<HistoryMessage>>
    /\ Len(chat_history["online"]) = 6

C29_StageFormatsAndTemperatures ==
    ret.op = "search"
    => /\ Len(calls) >= 1 =>
            /\ calls[1].args.format = "json"
            /\ calls[1].args.temperature = ConfiguredTemperature
            /\ calls[1].args.prompts[1] = system_prompt["online"]
       /\ Len(calls) >= 3 =>
            /\ calls[3].args.format = "json"
            /\ calls[3].args.temperature = ConfiguredTemperature
       /\ Len(calls) >= 5 =>
            /\ calls[5].args.format = ""
            /\ calls[5].args.temperature = DefaultTemperature
            /\ calls[5].args.temperature # calls[1].args.temperature
            /\ calls[5].args.prompts =
                 <<[role |-> "system", content |-> <<"GenericResponder">>]>>
                 \o HistoryList(frame.history)
                 \o <<[role |-> "user", content |-> frame.user_prompt]>>
            /\ calls[5].args.prompts[1] # system_prompt["online"]

\* a search with a history answered at the default temperature
C29_Witness ==
    /\ SearchAnswered
    /\ frame.history # None
    /\ calls[5].args.temperature = DefaultTemperature
    /\ calls[3].args.temperature = ConfiguredTemperature
    /\ Len(calls[5].args.prompts) = 3

\* ------------------------------------------------------- WebsiteReaderAgent
ReaderAsked == ret.op = "reader.ask" /\ calls # <<>>

\* C24 (as claimed): WebsiteReaderAgent.ask reads the page with the reader
\* the agent was constructed with, the custom one when one was given; when
\* the reader returns None the content sent to the model is the text
\* "Website could not be read", and the model is asked all the same.
C24_ConfiguredReaderAndSentinel ==
    ReaderAsked
    => /\ calls[1].callee = read_function
       /\ Len(calls) = 2
       /\ calls[2].callee = "llm.ask"
       /\ calls[1].returned = None =>
            LET content == calls[2].args.prompts[1].content
            IN content[Len(content)] = CouldNotBeRead.v

\* --------------------------------------------------------- stream_and_record
\* C30: the consumer receives the contents of the chunks in the order of
\* the stream; once the stream is exhausted, and not before, the given list
\* has gained exactly one assistant message whose content is the
\* concatenation of what was yielded; nothing is appended while chunks
\* remain, when the consumer stopped early, or when the list is None.
C30_RecordsOnceAfterExhaustion ==
    stream.state # "none"
    => /\ Len(stream.yielded) <= Len(stream.source)
       /\ \A n \in 1..Len(stream.yielded) :
            stream.yielded[n] = Content(stream.source[n])
       /\ stream.state = "finished" =>
            /\ Len(stream.yielded) = Len(stream.source)
            /\ stream.chat_history # None =>
                 chat_history["agent"] =
                    <<[role |-> "assistant", content |-> Flatten(stream.yielded)]>>
       /\ (stream.state # "finished" \/ stream.chat_history = None) =>
            chat_history["agent"] = <<>>
       /\ \A i \in Instances \ {"agent"} : chat_history[i] = <<>>

\* a text chunk and a dict chunk were yielded and then recorded as one message
C30_Witness ==
    /\ stream.state = "finished"
    /\ Len(stream.source) = 2
    /\ stream.source[1].t = "text"
    /\ stream.source[2].t = "dict"
    /\ stream.yielded = <<<<"Hel">>, <<"lo">>>>
    /\ chat_history["agent"] = <<[role |-> "assistant", content |-> <<"Hel", "lo">>]>>

\* ------------------------------------------------------------ two threads
EntrySet(t) == {threads[t].entries[k] : k \in 1..Len(threads[t].entries)}

Contiguous(S) == \A a \in S, b \in S : \A c \in a..b : c \in S

\* C21: the ledger holds what the two calls appended, each call's entries in
\* the order it appended them; a call that ran while no other call did has
\* its entries next to each other.  (That a call overlapping another can end
\* with its entries apart is what the witness shows.)
C21_ContiguousWhenNotOverlapped ==
    threads # NoThreads
    => /\ \A t \in ThreadIds :
            /\ \A k \in 1..(Len(threads[t].entries) - 1) :
                  threads[t].entries[k] < threads[t].entries[k + 1]
            /\ ~threads[t].overlapped => Contiguous(EntrySet(t))
       /\ EntrySet("t1") \cap EntrySet("t2") = {}
       /\ EntrySet("t1") \cup EntrySet("t2") = 1..Len(chat_history["online"])

\* two searches that both answered, their pairs alternating stage by stage
C21_Witness ==
    /\ threads # NoThreads
    /\ \A t \in ThreadIds : threads[t].pc = "done" /\ threads[t].ret.t = "text"
    /\ threads["t1"].entries = <<1, 2, 5, 6, 9, 10>>
    /\ threads["t2"].entries = <<3, 4, 7, 8, 11, 12>>
    /\ ~Contiguous(EntrySet("t1"))
    /\ Len(chat_history["online"]) = 12

====
